---- MODULE Spec2Model ----
(***************************************************************************)
(* kube_api: one Job handle (jobs.py), the Pod handle it builds (pods.py)  *)
(* and the api_request wrapper (utils.py) around the cluster client.       *)
(*                                                                         *)
(* The cluster is not owned by the handle: every client call draws its     *)
(* outcome from the set of outcomes the client can produce.  Python        *)
(* values are encoded as records with a tag field `t`; a dictionary key    *)
(* that is missing is the tag "absent" (or the string "ABSENT"), the value *)
(* None is the tag "null"/"none".  Counts (active, succeeded, failed) are  *)
(* 0 for None/0 (falsy) and 1 for a positive count (truthy).  Texts are   *)
(* strings; a name that is computed on is a sequence of characters.        *)
(*                                                                         *)
(* Spec follows one handle named "job" through every interleaving of its   *)
(* public methods; SpecWait is that handle with only wait() called, under  *)
(* the fairness of a running thread; SpecFn applies the stateless calls to *)
(* arguments drawn beforehand and then drives a handle of any name.        *)
(***************************************************************************)
EXTENDS Integers, Sequences, FiniteSets, TLC

VARIABLES
    job_name,           \* self.job_name, a sequence of characters
    containers,         \* len(self.containers)
    creation_response,  \* self.creation_response
    status_cache,       \* self.__status
    logs_cache,         \* self.__logs
    pc,                 \* "idle", or the method whose loop is running
    op,                 \* the public method called last
    raised,             \* the exception that call ended with, or "none"
    ret,                \* the value that call returned
    calls,              \* client calls issued by that call, per endpoint
    arg,                \* the arguments of the call, what the client will answer
    sent,               \* the request of the last client call of the running call
    created_as,         \* history: the name of the last job body sent to createJob
    only_active,        \* history: every readJobStatus answer so far reported active
    pinned,             \* history: terminal snapshot returned and not refreshed since
    settled,            \* history: a logs() call ended its loop with the job not active
    w,                  \* locals and history of wait()
    lg                  \* locals and history of logs()

vars == <<job_name, containers, creation_response, status_cache, logs_cache, pc, op,
          raised, ret, calls, arg, sent, created_as, only_active, pinned, settled, w, lg>>

----------------------------------------------------------------------------
(* Bounds *)

MaxContainers == 1
MaxTimeout == 3
MaxInterval == 2
MaxPods == 2
MaxPrefix == 3
MaxSuffix == 2

----------------------------------------------------------------------------
(* Python values *)

None == [t |-> "none"]
Some(v) == [t |-> "some", v |-> v]

RECURSIVE Text(_)
\* the str made of the characters
Text(chars) == IF chars = <<>> THEN "" ELSE Head(chars) \o Text(Tail(chars))

UpperChars == <<"A", "B", "C", "D", "E", "F", "G", "H", "I", "J", "K", "L", "M",
                "N", "O", "P", "Q", "R", "S", "T", "U", "V", "W", "X", "Y", "Z">>
LowerChars == <<"a", "b", "c", "d", "e", "f", "g", "h", "i", "j", "k", "l", "m",
                "n", "o", "p", "q", "r", "s", "t", "u", "v", "w", "x", "y", "z">>
Digits == <<"0", "1", "2", "3", "4", "5", "6", "7", "8", "9">>
Range(f) == {f[i] : i \in DOMAIN f}

\* str.lower, character by character
LowerChar(c) ==
    IF c \in Range(UpperChars)
    THEN LowerChars[CHOOSE i \in DOMAIN UpperChars : UpperChars[i] = c]
    ELSE c
Lower(chars) == [i \in DOMAIN chars |-> LowerChar(chars[i])]

\* the names a handle is constructed with; the cluster knows the job as "job"
JobChars == <<"j", "o", "b">>
JobNames == {JobChars, <<"J", "o", "b">>}
JobName == "job"
OtherName == "other"
Namespace == "default"
OtherNamespace == "batch"
PodNames == <<"p1", "p2", "p3", "p4">>

StatusVal(t, a, s, f, ph) ==
    [t |-> t, active |-> a, succeeded |-> s, failed |-> f, phase |-> ph]
AbsentStatus == StatusVal("absent", 0, 0, 0, "")
NullStatus == StatusVal("null", 0, 0, 0, "")
IntStatus == StatusVal("int", 0, 0, 0, "")
StrStatus == StatusVal("str", 0, 0, 0, "")
JobStatus(a, s, f) == StatusVal("map", a, s, f, "")
PodStatus(ph) == StatusVal("map", 0, 0, 0, ph)

Meta(t, n, ns) == [t |-> t, name |-> n, namespace |-> ns]
AbsentMeta == Meta("absent", "ABSENT", "ABSENT")
EmptyMeta == Meta("map", "ABSENT", "ABSENT")

PodSpec(t, ic, c) == [t |-> t, init_containers |-> ic, containers |-> c]
AbsentSpec == PodSpec("absent", <<>>, <<>>)

\* A dictionary as api_request returns it.
Payload(e, st, msg, md, sp, it) ==
    [t |-> "dict", error |-> e, status |-> st, message |-> msg, metadata |-> md,
     spec |-> sp, items |-> it, logs |-> [t |-> "absent"]]
\* A str
Str(text) == [t |-> "str", s |-> text]

\* dict.get("status", {}) of jobs.py:123,144,165,192
GetStatus(p) == IF p.status.t = "absent" THEN JobStatus(0, 0, 0) ELSE p.status
\* isinstance(x, dict)
IsDict(st) == st.t = "map"

----------------------------------------------------------------------------
(* The client: what one call can end with *)

Ok(v) == [t |-> "ok", v |-> v]
\* a result without to_dict(): the client's plain str
RawStr(text) == [t |-> "rawstr", v |-> text]
ApiException(code, reason, body) ==
    [t |-> "exc", code |-> code, reason |-> reason, body |-> body]

Bodies == {"k8s", "json", "text", "none"}
Failures == {ApiException(404, "Not Found", b) : b \in Bodies}

NoItems == [t |-> "absent", v |-> <<>>]
JobPayload(a, s, f) ==
    Payload("ABSENT", JobStatus(a, s, f), "ABSENT", Meta("map", JobName, Namespace),
            AbsentSpec, NoItems)
JobPayloadNullStatus ==
    Payload("ABSENT", NullStatus, "ABSENT", Meta("map", JobName, Namespace),
            AbsentSpec, NoItems)

JobOutcomes ==
    {Ok(JobPayload(a, s, f)) : a \in 0..1, s \in 0..1, f \in 0..1}
    \cup {Ok(JobPayloadNullStatus)} \cup Failures

----------------------------------------------------------------------------
(* utils.py *)

\* The mapping built from an ApiException whose body is a JSON mapping:
\* status/error/headers, then updated with the decoded body.
ErrorMapping(e) ==
    IF e.body = "k8s"
    THEN Payload(e.reason, StrStatus, "message", EmptyMeta, AbsentSpec, NoItems)
    ELSE Payload(e.reason, IntStatus, "ABSENT", AbsentMeta, AbsentSpec, NoItems)

Raise(exc) == [raised |-> exc]
Return(v) == [raised |-> "none", v |-> v]

api_request(o) ==
    IF o.t = "ok" THEN Return(o.v)
    ELSE IF o.t = "rawstr" THEN Raise("AttributeError")
    ELSE IF o.body = "text" THEN Raise("JSONDecodeError")
    ELSE IF o.body = "none" THEN Raise("TypeError")
    ELSE Return(ErrorMapping(o))

----------------------------------------------------------------------------
(* Bookkeeping of one public call *)

Endpoints == {"createJob", "readJobStatus", "deleteJob", "listPods", "readPod", "readPodLog"}
NoCalls == [e \in Endpoints |-> 0]

NoArg == [fn |-> "none"]

\* a request to the cluster: the endpoint, the name and namespace it
\* addresses (for listPods, which lists every namespace, the value of label
\* job-name the result is filtered by), the body
NoBody == [t |-> "none"]
Request(endpoint, name, namespace, body) ==
    [endpoint |-> endpoint, name |-> name, namespace |-> namespace, body |-> body]
NoRequest == Request("none", "", "", NoBody)

RetNone == [t |-> "none"]
RetSelf == [t |-> "self"]
RetPayload(p) == [t |-> "payload", v |-> p]
RetLog(l) == [t |-> "log", v |-> l]
RetFlag(b) == [t |-> "flag", v |-> b]
RetPods(ps) == [t |-> "pods", v |-> ps]
RetName(chars) == [t |-> "name", v |-> chars]

NoWait == [interval |-> 0, timeout |-> 0, counter |-> 0, sleeps |-> 0,
           polls |-> <<>>, fresh |-> FALSE, timedout |-> FALSE, lap |-> 0]

NoLogs == [queue |-> <<>>, job_logs |-> None, found |-> 0, phases |-> <<>>,
           last |-> None, listed |-> FALSE, looping |-> FALSE,
           found_in |-> <<>>, discovered |-> None, final |-> "", stored |-> FALSE]

\* active falsy and a terminal field set
Terminal(p) ==
    /\ p.status.t = "map"
    /\ p.status.active = 0
    /\ (p.status.succeeded = 1 \/ p.status.failed = 1)

----------------------------------------------------------------------------
(* jobs.py: Job.info, status, server_status, is_active, succeeded *)

\* what one status read gave: the class of the outcome i of Job.info
PollClass(i) ==
    IF i.raised # "none" THEN "raise"
    ELSE IF i.v.v.error # "ABSENT" THEN "error"
    ELSE IF ~IsDict(GetStatus(i.v.v)) THEN "malformed"
    ELSE IF GetStatus(i.v.v).succeeded = 1 THEN "succeeded"
    ELSE IF GetStatus(i.v.v).failed = 1 THEN "failed"
    ELSE IF GetStatus(i.v.v).active = 0 THEN "inactive"
    ELSE "active"

\* the outcome i of Job.info is a payload whose status has active truthy
ReportsActive(i) ==
    /\ i.raised = "none"
    /\ IsDict(GetStatus(i.v.v))
    /\ GetStatus(i.v.v).active = 1

\* the requests of Job.info and Job.delete, and the listing of Job.pods
ReadRequest(name, namespace) == Request("readJobStatus", Text(name), namespace, NoBody)
DeleteRequest(name, namespace) ==
    Request("deleteJob", Text(name), namespace,
            [t |-> "delete", propagation_policy |-> "Foreground"])
ListRequest(name) == Request("listPods", Text(name), "", NoBody)
PodRequest(endpoint, pod) == Request(endpoint, pod.name, pod.namespace, NoBody)

\* (mutation of Cacheable: every snapshot with a status mapping is kept)
CacheableWhileActive(s) == IsDict(GetStatus(s))

\* if isinstance(job_status, dict) and not job_status.get("active")
Cacheable(s) == IsDict(GetStatus(s)) /\ GetStatus(s).active = 0

\* (mutation of JobInfo: the cached snapshot is never used)
JobInfoIgnoringCache(cache, use_cache, o, pin) ==
    LET r == api_request(o) IN
    IF r.raised # "none"
    THEN [raised |-> r.raised, v |-> RetNone, cache |-> cache, read |-> 1, pin |-> pin]
    ELSE [raised |-> "none", v |-> RetPayload(r.v),
          cache |-> IF Cacheable(r.v) THEN Some(r.v) ELSE cache,
          read |-> 1,
          pin |-> IF Terminal(r.v) THEN Some(r.v) ELSE pin]

\* Job.info(use_cache) on a handle whose __status is `cache`, the client
\* answering `o` if it is asked.  `pin` is the new value of the history
\* variable: a forced refresh starts it afresh.
JobInfo(cache, use_cache, o, pin) ==
    IF cache # None /\ use_cache
    THEN [raised |-> "none", v |-> RetPayload(cache.v), cache |-> cache, read |-> 0, pin |-> pin]
    ELSE LET r == api_request(o)
             p == IF use_cache THEN pin ELSE None
         IN
         IF r.raised # "none"
         THEN [raised |-> r.raised, v |-> RetNone, cache |-> cache, read |-> 1, pin |-> p]
         ELSE [raised |-> "none", v |-> RetPayload(r.v),
               cache |-> IF Cacheable(r.v) THEN Some(r.v) ELSE cache,
               read |-> 1,
               pin |-> IF Terminal(r.v) THEN Some(r.v) ELSE p]

\* Job.server_status: the status mapping of info(), {} when it is no mapping
ServerStatus(i) ==
    IF IsDict(GetStatus(i.v.v)) THEN GetStatus(i.v.v) ELSE JobStatus(0, 0, 0)

Info(use_cache) ==
    /\ pc = "idle"
    /\ \E o \in JobOutcomes :
         LET i == JobInfo(status_cache, use_cache, o, pinned) IN
         /\ op' = IF use_cache THEN "info" ELSE "info_nocache"
         /\ raised' = i.raised
         /\ ret' = i.v
         /\ status_cache' = i.cache
         /\ calls' = [NoCalls EXCEPT !["readJobStatus"] = i.read]
         /\ sent' = IF i.read = 1 THEN ReadRequest(job_name, Namespace) ELSE NoRequest
         /\ only_active' = (only_active /\ ReportsActive(i))
         /\ pinned' = i.pin
    /\ pc' = "done"
    /\ UNCHANGED <<job_name, settled, containers, creation_response, logs_cache, w, lg, arg,
                   created_as>>

\* Job.is_active / Job.succeeded: a field of server_status
Property(name) ==
    /\ pc = "idle"
    /\ \E o \in JobOutcomes :
         LET i == JobInfo(status_cache, TRUE, o, pinned) IN
         /\ op' = name
         /\ raised' = i.raised
         /\ ret' = IF i.raised # "none" THEN RetNone
                   ELSE IF name = "is_active" THEN RetFlag(ServerStatus(i).active = 1)
                   ELSE RetFlag(ServerStatus(i).succeeded = 1)
         /\ status_cache' = i.cache
         /\ calls' = [NoCalls EXCEPT !["readJobStatus"] = i.read]
         /\ sent' = IF i.read = 1 THEN ReadRequest(job_name, Namespace) ELSE NoRequest
         /\ only_active' = (only_active /\ ReportsActive(i))
         /\ pinned' = i.pin
    /\ pc' = "done"
    /\ UNCHANGED <<job_name, settled, containers, creation_response, logs_cache, w, lg, arg,
                   created_as>>

----------------------------------------------------------------------------
(* jobs.py: Job.generate_job_name *)

\* [0-9a-zA-Z]
IsAlnum(c) == c \in Range(UpperChars) \cup Range(LowerChars) \cup Range(Digits)
Whitespace == {" "}

RECURSIVE LStrip(_)
LStrip(chars) ==
    IF chars # <<>> /\ Head(chars) \in Whitespace THEN LStrip(Tail(chars)) ELSE chars
RECURSIVE RStrip(_)
RStrip(chars) ==
    IF chars # <<>> /\ chars[Len(chars)] \in Whitespace
    THEN RStrip(SubSeq(chars, 1, Len(chars) - 1)) ELSE chars
\* str.strip()
Strip(chars) == RStrip(LStrip(chars))

RECURSIVE SkipRun(_)
\* the rest after the run of non-alphanumerics chars starts with
SkipRun(chars) ==
    IF chars # <<>> /\ ~IsAlnum(Head(chars)) THEN SkipRun(Tail(chars)) ELSE chars
RECURSIVE SubRuns(_)
\* re.sub('[^0-9a-zA-Z]+', '-', chars)
SubRuns(chars) ==
    IF chars = <<>> THEN <<>>
    ELSE IF IsAlnum(Head(chars)) THEN <<Head(chars)>> \o SubRuns(Tail(chars))
    ELSE <<"-">> \o SubRuns(SkipRun(chars))

\* the prefixes a caller passes (<<>> for "" and None, both falsy), the
\* letters random.choice draws
PrefixChars == {"a", "B", "1", "_", " "}
Prefixes == UNION {[1..k -> PrefixChars] : k \in 0..MaxPrefix}
RandomLetters == {"x", "y"}

\* generate_job_name(prefix, n), letters the n letters drawn
generate_job_name(prefix, letters) ==
    (IF prefix # <<>> THEN Lower(SubRuns(Strip(prefix))) \o <<"-">> ELSE <<>>) \o letters

\* Job.generate_job_name(arg.prefix, arg.n)
GenerateJobName ==
    /\ pc = "arg"
    /\ arg.fn = "generate_job_name"
    /\ \E letters \in [1..arg.n -> RandomLetters] :
         ret' = RetName(generate_job_name(arg.prefix, letters))
    /\ op' = "generate_job_name"
    /\ raised' = "none"
    /\ calls' = NoCalls
    /\ sent' = NoRequest
    /\ pc' = "done"
    /\ UNCHANGED <<job_name, settled, containers, creation_response, status_cache,
                   logs_cache, pinned, w, lg, arg, created_as, only_active>>

----------------------------------------------------------------------------
(* jobs.py: containers, create, run_container, delete *)

CreateOutcomes ==
    {Ok(JobPayload(0, 0, 0)), ApiException(409, "Conflict", "k8s"),
     ApiException(409, "Conflict", "none")}
DeletePayload ==
    Payload("ABSENT", StrStatus, "ABSENT", EmptyMeta, AbsentSpec, NoItems)
DeleteOutcomes == {Ok(DeletePayload)} \cup Failures

\* what a caller passes to create() as job_spec and as pod_spec: None for
\* an argument left out, else the keyword arguments of V1JobSpec / V1PodSpec
JobSpecArgs == {None, Some([backoff_limit |-> Some(0)]), Some([backoff_limit |-> Some(2)])}
PodSpecArgs == {None, Some([restart_policy |-> Some("Always")])}
\* self.job_spec and self.pod_spec: dict()
SelfJobSpec == [backoff_limit |-> None]
SelfPodSpec == [restart_policy |-> None]
CreateArgs(js, ps) == [fn |-> "create", job_spec |-> js, pod_spec |-> ps]

\* pod_template(containers, volumes, **pod_spec): V1PodSpec is given
\* restart_policy='Never' next to the caller's keywords, so a caller's
\* restart_policy is a repeated keyword
pod_template(pod_spec) ==
    IF pod_spec.restart_policy # None THEN Raise("TypeError")
    ELSE Return([restart_policy |-> "Never"])

\* the name create() submits: str(self.job_name).lower()
CreateName(name) == Text(Lower(name))

\* the job body create(job_spec, pod_spec) builds
JobBody(name, namespace, js, ps) ==
    LET job_spec == IF js = None THEN SelfJobSpec ELSE js.v
        pod_spec == IF ps = None THEN SelfPodSpec ELSE ps.v
        template == pod_template(pod_spec)
    IN IF template.raised # "none" THEN Raise(template.raised)
       ELSE Return([t |-> "job", kind |-> "Job", name |-> CreateName(name),
                    namespace |-> namespace,
                    restart_policy |-> template.v.restart_policy,
                    backoff_limit |-> job_spec.backoff_limit])

\* (mutation of JobCreate: the container check is missing)
JobCreateUnchecked(n, resp, o) ==
    LET r == api_request(o) IN
    [raised |-> r.raised,
     v |-> IF r.raised = "none" THEN RetPayload(r.v) ELSE RetNone,
     resp |-> IF r.raised = "none" THEN Some(r.v) ELSE resp,
     call |-> 1]

\* Job.create() on a handle with n containers and creation_response resp
JobCreate(n, resp, o) ==
    IF n = 0
    THEN [raised |-> "ValueError", v |-> RetNone, resp |-> resp, call |-> 0]
    ELSE LET r == api_request(o) IN
         [raised |-> r.raised,
          v |-> IF r.raised = "none" THEN RetPayload(r.v) ELSE RetNone,
          resp |-> IF r.raised = "none" THEN Some(r.v) ELSE resp,
          call |-> 1]

\* create(job_spec, pod_spec) of a handle with n containers: the check of
\* the containers, the body, the call
JobCreateWith(name, namespace, js, ps, n, resp, o) ==
    LET b == JobBody(name, namespace, js, ps)
        c == JobCreate(n, resp, o)
    IN IF c.call = 0 THEN c @@ [req |-> NoRequest]
       ELSE IF b.raised # "none"
       THEN [raised |-> b.raised, v |-> RetNone, resp |-> resp, call |-> 0, req |-> NoRequest]
       ELSE c @@ [req |-> Request("createJob", b.v.name, namespace, b.v)]

AddContainer ==
    /\ pc = "idle"
    /\ containers < MaxContainers
    /\ containers' = containers + 1
    /\ op' = "add_container"
    /\ raised' = "none"
    /\ ret' = RetSelf
    /\ calls' = NoCalls
    /\ sent' = NoRequest
    /\ UNCHANGED <<created_as, only_active>>
    /\ pc' = "done"
    /\ UNCHANGED <<job_name, settled, creation_response, status_cache, logs_cache, pinned, w,
                   lg, arg>>

ClearContainers ==
    /\ pc = "idle"
    /\ containers' = 0
    /\ op' = "clear_containers"
    /\ raised' = "none"
    /\ ret' = RetSelf
    /\ calls' = NoCalls
    /\ sent' = NoRequest
    /\ UNCHANGED <<created_as, only_active>>
    /\ pc' = "done"
    /\ UNCHANGED <<job_name, settled, creation_response, status_cache, logs_cache, pinned, w,
                   lg, arg>>

Create ==
    /\ pc = "idle"
    /\ \E o \in CreateOutcomes, js \in JobSpecArgs, ps \in PodSpecArgs :
         LET c == JobCreateWith(job_name, Namespace, js, ps, containers,
                                creation_response, o)
         IN
         /\ op' = "create"
         /\ arg' = CreateArgs(js, ps)
         /\ raised' = c.raised
         /\ ret' = c.v
         /\ creation_response' = c.resp
         /\ calls' = [NoCalls EXCEPT !["createJob"] = c.call]
         /\ sent' = c.req
         /\ created_as' = IF c.call = 1 THEN Some(c.req.name) ELSE created_as
    /\ pc' = "done"
    /\ UNCHANGED <<job_name, settled, containers, status_cache, logs_cache, pinned, w, lg,
                   only_active>>

\* add_container, create, clear_containers; an exception of create leaves
\* the container in place
RunContainer ==
    /\ pc = "idle"
    /\ containers < MaxContainers
    /\ \E o \in CreateOutcomes :
         LET c == JobCreateWith(job_name, Namespace, None, None, containers + 1,
                                creation_response, o)
         IN
         /\ op' = "run_container"
         /\ arg' = CreateArgs(None, None)
         /\ raised' = c.raised
         /\ ret' = c.v
         /\ creation_response' = c.resp
         /\ containers' = IF c.raised = "none" THEN 0 ELSE containers + 1
         /\ calls' = [NoCalls EXCEPT !["createJob"] = c.call]
         /\ sent' = c.req
         /\ created_as' = IF c.call = 1 THEN Some(c.req.name) ELSE created_as
    /\ pc' = "done"
    /\ UNCHANGED <<job_name, settled, status_cache, logs_cache, pinned, w, lg, only_active>>

Delete ==
    /\ pc = "idle"
    /\ \E o \in DeleteOutcomes :
         LET r == api_request(o) IN
         /\ op' = "delete"
         /\ raised' = r.raised
         /\ ret' = IF r.raised = "none" THEN RetPayload(r.v) ELSE RetNone
         /\ calls' = [NoCalls EXCEPT !["deleteJob"] = 1]
    /\ sent' = DeleteRequest(job_name, Namespace)
    /\ UNCHANGED <<created_as, only_active>>
    /\ pc' = "done"
    /\ UNCHANGED <<job_name, settled, containers, creation_response, status_cache, logs_cache,
                   pinned, w, lg, arg>>

----------------------------------------------------------------------------
(* jobs.py: Job.wait *)

\* interval 0 included: wait() accepts it
Intervals == 0..MaxInterval
Timeouts == 0..MaxTimeout

\* (mutation of WaitGuard: one iteration too many)
WaitGuardInclusive(counter, timeout) == counter <= timeout

\* while counter < timeout
WaitGuard(counter, timeout) == counter < timeout

\* (mutation of WaitCheck: a failed job does not end the wait)
WaitCheckNoFailed(p) ==
    LET status == GetStatus(p) IN
    IF ~IsDict(status) THEN "AttributeError"
    ELSE IF status.succeeded = 1 THEN "return"
    ELSE IF status.active = 0 THEN "return"
    ELSE "continue"

\* the body of the loop after status(): status.get(...) on what
\* status().get("status", {}) gave
WaitCheck(p) ==
    LET status == GetStatus(p) IN
    IF ~IsDict(status) THEN "AttributeError"
    ELSE IF status.succeeded = 1 THEN "return"
    ELSE IF status.failed = 1 THEN "return"
    ELSE IF status.active = 0 THEN "return"
    ELSE "continue"

\* The history of a wait (sleeps, polls, calls) is recorded up to MaxPolls
\* iterations, more than any wait with a positive interval makes; past that
\* only the parity of the iterations is kept.
MaxPolls == MaxTimeout + 1
Recorded(n) == IF n < MaxPolls THEN n + 1 ELSE n

WaitStart ==
    /\ pc = "idle"
    /\ \E interval \in Intervals, timeout \in Timeouts :
         w' = [interval |-> interval, timeout |-> timeout, counter |-> 0,
               sleeps |-> 0, polls |-> <<>>, fresh |-> (status_cache = None),
               timedout |-> FALSE, lap |-> 0]
    /\ pc' = "wait"
    /\ sent' = NoRequest
    /\ UNCHANGED <<created_as, only_active>>
    /\ op' = "wait"
    /\ raised' = "none"
    /\ ret' = RetNone
    /\ calls' = NoCalls
    /\ UNCHANGED <<job_name, settled, containers, creation_response, status_cache, logs_cache,
                   arg, pinned, lg>>

\* one iteration: sleep, status(), the three checks, counter += interval
WaitIter ==
    /\ pc = "wait"
    /\ WaitGuard(w.counter, w.timeout)
    /\ \E o \in JobOutcomes :
         LET i == JobInfo(status_cache, TRUE, o, pinned)
             c == IF i.raised # "none" THEN i.raised ELSE WaitCheck(i.v.v)
         IN
         /\ status_cache' = i.cache
         /\ pinned' = i.pin
         /\ calls' = [calls EXCEPT !["readJobStatus"] =
                                     IF i.read = 1 THEN Recorded(@) ELSE @]
         /\ sent' = IF i.read = 1 THEN ReadRequest(job_name, Namespace) ELSE sent
         /\ only_active' = (only_active /\ ReportsActive(i))
         /\ w' = [w EXCEPT !.sleeps = Recorded(@),
                           !.polls = IF Len(@) < MaxPolls THEN Append(@, PollClass(i))
                                     ELSE @,
                           !.lap = IF Len(w.polls) < MaxPolls THEN @ ELSE 1 - @,
                           !.counter = IF c = "continue" THEN @ + w.interval ELSE @]
         /\ pc' = IF c = "continue" THEN "wait" ELSE "done"
         /\ raised' = IF c \in {"continue", "return"} THEN "none" ELSE c
         /\ ret' = IF c = "return" THEN RetSelf ELSE RetNone
    /\ UNCHANGED <<job_name, settled, containers, creation_response, logs_cache, op, arg, lg,
                   created_as>>

\* the loop ends on the counter: the timeout is logged, self returned
WaitTimeout ==
    /\ pc = "wait"
    /\ ~WaitGuard(w.counter, w.timeout)
    /\ w' = [w EXCEPT !.timedout = TRUE]
    /\ UNCHANGED <<sent, created_as, only_active>>
    /\ pc' = "done"
    /\ ret' = RetSelf
    /\ UNCHANGED <<job_name, settled, containers, creation_response, status_cache, logs_cache, op,
                   raised, calls, arg, pinned, lg>>

----------------------------------------------------------------------------
(* jobs.py: Job.pods, Job.pod_names *)

\* One entry of the pod listing.  meta/labels: "map", "absent" (no such key)
\* or "null" (None); job: the value of label job-name, "ABSENT" without it;
\* name, namespace: "ABSENT" when the key is missing.
Item(meta, labels, job, name, ns) ==
    [meta |-> meta, labels |-> labels, job |-> job, name |-> name, namespace |-> ns]

\* the listed pods Job.logs is run against, and those Job.pods is
Shapes == {"match", "other", "nolabels", "elsewhere"}
AllShapes == Shapes \cup {"noname", "nullname", "nometa", "nullmeta"}

ItemOf(shape, name) ==
    CASE shape = "match" -> Item("map", "map", JobName, name, Namespace)
      [] shape = "other" -> Item("map", "map", OtherName, name, Namespace)
      [] shape = "elsewhere" -> Item("map", "map", JobName, name, OtherNamespace)
      [] shape = "nolabels" -> Item("map", "null", "ABSENT", name, Namespace)
      [] shape = "noname" -> Item("map", "map", JobName, "ABSENT", Namespace)
      [] shape = "nullname" -> Item("map", "map", JobName, "NULL", Namespace)
      [] shape = "nometa" -> Item("absent", "absent", "ABSENT", "ABSENT", "ABSENT")
      [] shape = "nullmeta" -> Item("null", "absent", "ABSENT", "ABSENT", "ABSENT")

Listings(shapes) ==
    UNION {{[i \in 1..n |-> ItemOf(f[i], PodNames[i])] : f \in [1..n -> shapes]}
           : n \in 0..MaxPods}

ListPayload(items) ==
    Payload("ABSENT", AbsentStatus, "ABSENT", EmptyMeta, AbsentSpec,
            [t |-> "list", v |-> items])
ListOutcomes(shapes) == {Ok(ListPayload(l)) : l \in Listings(shapes)} \cup Failures

\* a Pod handle
Pod(name, ns) == [name |-> name, namespace |-> ns]

\* x.get(key, "N/A") on the metadata of a listed pod
OrNA(x) == IF x = "ABSENT" THEN "N/A" ELSE x

\* pod.get("metadata", {}).get("labels", {}) fails on a None
ItemRaises(it) == it.meta = "null" \/ (it.meta = "map" /\ it.labels = "null")
ItemMatches(it, name) ==
    it.meta = "map" /\ it.labels = "map" /\ it.job = name

RECURSIVE MatchingPods(_, _)
\* the loop of Job.pods over the items, none of which raises
MatchingPods(items, name) ==
    IF items = <<>> THEN <<>>
    ELSE LET rest == MatchingPods(Tail(items), name) IN
         IF ItemMatches(Head(items), name)
         THEN <<Pod(OrNA(Head(items).name), OrNA(Head(items).namespace))>> \o rest
         ELSE rest

\* Job.pods() given the outcome of the listing call
JobPods(o, name) ==
    LET r == api_request(o) IN
    IF r.raised # "none" THEN Raise(r.raised)
    ELSE IF r.v.error # "ABSENT" THEN Return(<<>>)
    ELSE IF r.v.items.t # "list" THEN Raise("TypeError")
    ELSE IF \E i \in 1..Len(r.v.items.v) : ItemRaises(r.v.items.v[i])
         THEN Raise("AttributeError")
    ELSE Return(MatchingPods(r.v.items.v, name))

\* Job.pods() called with nothing else going on: the listing is arg.outcome
Pods ==
    /\ pc = "arg"
    /\ arg.fn = "pods"
    /\ LET r == JobPods(arg.outcome, Text(job_name)) IN
         /\ raised' = r.raised
         /\ ret' = IF r.raised = "none" THEN RetPods(r.v) ELSE RetNone
    /\ op' = "pods"
    /\ sent' = ListRequest(job_name)
    /\ UNCHANGED <<created_as, only_active>>
    /\ calls' = [NoCalls EXCEPT !["listPods"] = 1]
    /\ pc' = "done"
    /\ UNCHANGED <<job_name, settled, containers, creation_response, status_cache,
                   logs_cache, pinned,
                   w, lg, arg>>

----------------------------------------------------------------------------
(* pods.py: Pod.info, Pod.logs *)

Phases == {"Succeeded", "Running", "Failed"}
\* the containers of the pods Job.logs is run against, and of those Pod.info is
ContainerSets == {PodSpec("map", <<>>, <<"main">>)}
AllContainerSets ==
    ContainerSets \cup {PodSpec("map", <<"init">>, <<"main">>),
                        PodSpec("map", <<"init">>, <<"main", "side">>)}

PodPayload(pod, phase, sp) ==
    Payload("ABSENT", PodStatus(phase), "ABSENT", Meta("map", pod.name, pod.namespace),
            sp, NoItems)
PodOutcomes(pod, sets) ==
    {Ok(PodPayload(pod, ph, sp)) : ph \in Phases, sp \in sets} \cup Failures

LogKinds == {"ok", "rawstr"} \cup Bodies
\* those Job.logs is run against: a text, an error mapping without message,
\* a failure api_request raises on
JobLogKinds == {"ok", "json", "text"}
LogOutcome(pod, container, kind) ==
    CASE kind = "ok" -> Ok(Str(pod.name \o ":" \o container))
      [] kind = "rawstr" -> RawStr(pod.name \o ":" \o container)
      [] OTHER -> ApiException(400, "Bad Request", kind)

\* "\n" + "-" * 40 + "\n"
Separator == "\n----------------------------------------\n"

RECURSIVE Join(_)
\* Separator.join(pod_logs)
Join(pod_logs) ==
    IF pod_logs = <<>> THEN ""
    ELSE IF Len(pod_logs) = 1 THEN pod_logs[1]
    ELSE pod_logs[1] \o Separator \o Join(Tail(pod_logs))

\* get_dict_value(job_info, "spec", attr, default=[]): the nested value, the
\* default when a key on the way is missing
get_dict_value(job_info, attr) ==
    IF job_info.spec.t # "map" THEN <<>>
    ELSE IF attr = "init_containers" THEN job_info.spec.init_containers
    ELSE job_info.spec.containers

\* (mutation of ContainerNames: the regular containers come first)
ContainerNamesRegularFirst(job_info) ==
    get_dict_value(job_info, "containers") \o get_dict_value(job_info, "init_containers")

\* Pod.__get_container_names(job_info) for a non-empty job_info
ContainerNames(job_info) ==
    get_dict_value(job_info, "init_containers") \o get_dict_value(job_info, "containers")

RECURSIVE Collect(_)
\* the loop of Pod.logs over the containers, louts[i] the outcome of the
\* i-th log call: the contributions, the calls made, the exception if any
Collect(louts) ==
    IF louts = <<>> THEN [raised |-> "none", v |-> <<>>, n |-> 0]
    ELSE LET r == api_request(Head(louts)) IN
         IF r.raised # "none" THEN [raised |-> r.raised, v |-> <<>>, n |-> 1]
         ELSE LET rest == Collect(Tail(louts))
                  mine == IF r.v.t = "str" THEN <<r.v.s>>
                          ELSE IF r.v.message # "ABSENT" THEN <<r.v.message>>
                          ELSE <<>>
              IN [raised |-> rest.raised, v |-> mine \o rest.v, n |-> 1 + rest.n]

\* Pod.logs(containers)
PodLogs(louts) ==
    LET c == Collect(louts) IN
    [raised |-> c.raised, v |-> Some(Join(c.v)), n |-> c.n]

\* Pod.info() of the handle `pod`: o the outcome of readPod, kinds the
\* outcomes of the log calls
PodInfo(pod, o, kinds) ==
    LET r == api_request(o) IN
    IF r.raised # "none"
    THEN [raised |-> r.raised, v |-> RetNone, nlog |-> 0]
    ELSE LET response == IF r.v.error # "ABSENT"
                         THEN [r.v EXCEPT !.metadata = Meta("map", pod.name, pod.namespace)]
                         ELSE r.v
             names == ContainerNames(response)
             l == PodLogs([i \in 1..Len(names) |-> LogOutcome(pod, names[i], kinds[i])])
         IN IF l.raised # "none"
            THEN [raised |-> l.raised, v |-> RetNone, nlog |-> l.n]
            ELSE [raised |-> "none", v |-> RetPayload([response EXCEPT !.logs = l.v]),
                  nlog |-> l.n]

\* the number of log calls Pod.info will try after the outcome o of readPod
NLogs(o) ==
    IF api_request(o).raised # "none" THEN 0
    ELSE Len(ContainerNames(api_request(o).v))

\* Pod(name, namespace).info() called with nothing else going on
PodInfoCall ==
    /\ pc = "arg"
    /\ arg.fn = "pod_info"
    /\ LET i == PodInfo(arg.pod, arg.outcome, arg.kinds) IN
         /\ raised' = i.raised
         /\ ret' = i.v
         /\ calls' = [NoCalls EXCEPT !["readPod"] = 1, !["readPodLog"] = i.nlog]
    /\ op' = "pod_info"
    /\ sent' = PodRequest(IF NLogs(arg.outcome) > 0 THEN "readPodLog" ELSE "readPod", arg.pod)
    /\ UNCHANGED <<created_as, only_active>>
    /\ pc' = "done"
    /\ UNCHANGED <<job_name, settled, containers, creation_response, status_cache,
                   logs_cache, pinned,
                   w, lg, arg>>

\* api_request(api_func, ...) called with nothing else going on
ApiRequestCall ==
    /\ pc = "arg"
    /\ arg.fn = "api_request"
    /\ LET r == api_request(arg.outcome) IN
         /\ raised' = r.raised
         /\ ret' = IF r.raised = "none" THEN RetPayload(r.v) ELSE RetNone
    /\ op' = "api_request"
    /\ sent' = NoRequest
    /\ UNCHANGED <<created_as, only_active>>
    /\ calls' = NoCalls
    /\ pc' = "done"
    /\ UNCHANGED <<job_name, settled, containers, creation_response, status_cache,
                   logs_cache, pinned,
                   w, lg, arg>>

----------------------------------------------------------------------------
(* jobs.py: Job.logs *)

\* truth value of a log: None and "" are falsy
Truthy(l) == l # None /\ l.v # ""

\* (mutation of LogsBreak: the loop never stops early)
LogsBreakNever(phase) == FALSE

\* if phase == "Succeeded": break
LogsBreak(phase) == phase = "Succeeded"

\* phase as logs() computes it from pod_info
PhaseOf(pod_info) ==
    IF IsDict(GetStatus(pod_info)) THEN GetStatus(pod_info).phase ELSE ""

\* the pod reported phase "Succeeded"
PodSucceeded(pod_info) ==
    pod_info.status.t = "map" /\ pod_info.status.phase = "Succeeded"

\* if self.__logs and use_cache
LogsHit(cache, use_cache) == Truthy(cache) /\ use_cache

\* logs(use_cache) up to the loop: the cached log, or pod_names()
LogsStart(use_cache) ==
    /\ pc = "idle"
    /\ op' = IF use_cache THEN "logs" ELSE "logs_nocache"
    /\ IF LogsHit(logs_cache, use_cache)
       THEN /\ ret' = RetLog(logs_cache)
            /\ raised' = "none"
            /\ calls' = NoCalls
            /\ sent' = NoRequest
            /\ lg' = NoLogs
            /\ pc' = "done"
       ELSE \E o \in ListOutcomes(Shapes) :
            LET r == JobPods(o, Text(job_name)) IN
            /\ ret' = RetNone
            /\ raised' = r.raised
            /\ calls' = [NoCalls EXCEPT !["listPods"] = 1]
            /\ sent' = ListRequest(job_name)
            /\ lg' = IF r.raised # "none" THEN [NoLogs EXCEPT !.listed = TRUE]
                     ELSE [NoLogs EXCEPT !.listed = TRUE, !.looping = TRUE,
                                         !.queue = [k \in 1..Len(r.v) |-> r.v[k].name],
                                         !.found_in = [k \in 1..Len(r.v) |-> r.v[k].namespace],
                                         !.found = Len(r.v)]
            /\ pc' = IF r.raised # "none" THEN "done" ELSE "logs"
    /\ UNCHANGED <<job_name, settled, containers, creation_response, status_cache,
                   logs_cache, arg, pinned, w, created_as, only_active>>

\* one pass of the loop: Pod(pod_name, self.namespace).info(), job_logs, break
LogsPod ==
    /\ pc = "logs"
    /\ lg.looping
    /\ lg.queue # <<>>
    /\ LET pod == Pod(Head(lg.queue), Namespace) IN
       \E o \in PodOutcomes(pod, ContainerSets) : \E kinds \in [1..NLogs(o) -> JobLogKinds] :
         LET i == PodInfo(pod, o, kinds) IN
         /\ calls' = [calls EXCEPT !["readPod"] = @ + 1, !["readPodLog"] = @ + i.nlog]
         /\ raised' = i.raised
         /\ sent' = PodRequest(IF i.nlog > 0 THEN "readPodLog" ELSE "readPod", pod)
         /\ IF i.raised # "none"
            THEN /\ pc' = "done"
                 /\ lg' = [lg EXCEPT !.looping = FALSE, !.queue = <<>>, !.found_in = <<>>,
                                     !.discovered = Some(Pod(Head(lg.queue),
                                                             Head(lg.found_in)))]
            ELSE /\ pc' = "logs"
                 /\ lg' = [lg EXCEPT !.job_logs = i.v.v.logs,
                                     !.last = i.v.v.logs,
                                     !.phases = Append(@, PodSucceeded(i.v.v)),
                                     !.queue = Tail(@),
                                     !.found_in = Tail(@),
                                     !.discovered = Some(Pod(Head(lg.queue),
                                                             Head(lg.found_in))),
                                     !.looping = ~LogsBreak(PhaseOf(i.v.v))]
    /\ UNCHANGED <<job_name, settled, containers, creation_response, status_cache,
                   logs_cache, op, ret, arg, pinned, w, created_as, only_active>>

\* after the loop: if not self.is_active, self.__logs = job_logs; return job_logs
LogsFinish ==
    /\ pc = "logs"
    /\ ~lg.looping \/ lg.queue = <<>>
    /\ \E o \in JobOutcomes :
         LET i == JobInfo(status_cache, TRUE, o, pinned) IN
         /\ status_cache' = i.cache
         /\ pinned' = i.pin
         /\ calls' = [calls EXCEPT !["readJobStatus"] = @ + i.read]
         /\ sent' = IF i.read = 1 THEN ReadRequest(job_name, Namespace) ELSE sent
         /\ only_active' = (only_active /\ ReportsActive(i))
         /\ raised' = i.raised
         /\ ret' = IF i.raised # "none" THEN RetNone ELSE RetLog(lg.job_logs)
         /\ logs_cache' = IF i.raised = "none" /\ ServerStatus(i).active = 0
                          THEN lg.job_logs ELSE logs_cache
         /\ settled' = (settled \/ (i.raised = "none" /\ ServerStatus(i).active = 0))
         /\ lg' = [lg EXCEPT !.looping = FALSE, !.queue = <<>>, !.found_in = <<>>,
                             !.final = PollClass(i),
                             !.stored = (i.raised = "none" /\ ServerStatus(i).active = 0)]
    /\ pc' = "done"
    /\ UNCHANGED <<job_name, containers, creation_response, op, arg, w, created_as>>

----------------------------------------------------------------------------
(* The handle after Job(job_name, namespace), and its callers *)

Init ==
    /\ job_name = JobChars
    /\ sent = NoRequest
    /\ created_as = None
    /\ only_active = TRUE
    /\ containers = 0
    /\ creation_response = None
    /\ status_cache = None
    /\ logs_cache = None
    /\ pc = "idle"
    /\ op = "init"
    /\ raised = "none"
    /\ ret = RetNone
    /\ calls = NoCalls
    /\ arg = NoArg
    /\ pinned = None
    /\ settled = FALSE
    /\ w = NoWait
    /\ lg = NoLogs

\* the caller has the result; the handle is ready for the next call
Returned ==
    /\ pc = "done"
    /\ pc' = "idle"
    /\ op' = "init"
    /\ raised' = "none"
    /\ ret' = RetNone
    /\ calls' = NoCalls
    /\ w' = NoWait
    /\ lg' = NoLogs
    /\ arg' = NoArg
    /\ sent' = NoRequest
    /\ UNCHANGED <<job_name, settled, containers, creation_response, status_cache, logs_cache,
                   pinned, created_as, only_active>>

Next ==
    \/ Returned
    \/ AddContainer
    \/ ClearContainers
    \/ Create
    \/ RunContainer
    \/ Delete
    \/ Info(TRUE)
    \/ Info(FALSE)
    \/ Property("is_active")
    \/ Property("succeeded")
    \/ WaitStart
    \/ WaitIter
    \/ WaitTimeout
    \/ LogsStart(TRUE)
    \/ LogsStart(FALSE)
    \/ LogsPod
    \/ LogsFinish

Spec == Init /\ [][Next]_vars

\* A handle that is only waited on.  The thread in wait() keeps running: an
\* iteration that can be taken is taken, and so is the exit of the loop.
NextWait ==
    \/ Returned
    \/ WaitStart
    \/ WaitIter
    \/ WaitTimeout

SpecWait ==
    Init /\ [][NextWait]_vars /\ WF_vars(WaitIter) /\ WF_vars(WaitTimeout)

----------------------------------------------------------------------------
(* The stateless calls, each on an argument drawn beforehand *)

APod == Pod("p1", Namespace)

Arg(fn, o, kinds) == [fn |-> fn, pod |-> APod, outcome |-> o, kinds |-> kinds]

Args ==
    {Arg("api_request", o, <<>>) :
        o \in JobOutcomes \cup CreateOutcomes \cup DeleteOutcomes
              \cup ListOutcomes(Shapes) \cup PodOutcomes(APod, AllContainerSets)
              \cup {LogOutcome(APod, "main", k) : k \in LogKinds}}
    \cup {Arg("pods", o, <<>>) : o \in ListOutcomes(AllShapes)}
    \cup {[fn |-> "generate_job_name", prefix |-> prefix, n |-> n] :
              prefix \in Prefixes, n \in 0..MaxSuffix}
    \cup UNION {{Arg("pod_info", o, kinds) : kinds \in [1..NLogs(o) -> LogKinds]}
               : o \in PodOutcomes(APod, AllContainerSets)}

InitFn ==
    /\ job_name \in JobNames
    /\ sent = NoRequest
    /\ created_as = None
    /\ only_active = TRUE
    /\ containers = 0
    /\ creation_response = None
    /\ status_cache = None
    /\ logs_cache = None
    /\ pc = "arg"
    /\ op = "init"
    /\ raised = "none"
    /\ ret = RetNone
    /\ calls = NoCalls
    /\ arg \in Args
    /\ pinned = None
    /\ settled = FALSE
    /\ w = NoWait
    /\ lg = NoLogs

\* ... and, once such a call has returned, a handle of any name that is
\* given a container, created, read, deleted and asked for its logs
NextFn ==
    \/ ApiRequestCall
    \/ Pods
    \/ PodInfoCall
    \/ GenerateJobName
    \/ Returned
    \/ AddContainer
    \/ Create
    \/ Info(TRUE)
    \/ Delete
    \/ LogsStart(TRUE)
    \/ LogsPod
    \/ LogsFinish

SpecFn == InitFn /\ [][NextFn]_vars

----------------------------------------------------------------------------
(* Properties *)

\* C1: once a status()/info() call has returned a snapshot with active falsy
\* and succeeded or failed set, and no info(use_cache=False) has refreshed it
\* since, every status()/info(use_cache=True) call returns that very snapshot
\* and issues no readJobStatus call, whatever the client would have answered.
C1_TerminalSnapshotIsServedFromCache ==
    [][(pc = "idle" /\ pinned # None /\ pc' = "done" /\ op' = "info")
        => /\ raised' = "none"
           /\ ret' = RetPayload(pinned.v)
           /\ calls'["readJobStatus"] = 0]_vars

C1_Witness ==
    /\ pc = "done"
    /\ op = "info"
    /\ pinned # None
    /\ ret = RetPayload(pinned.v)
    /\ calls["readJobStatus"] = 0

SawBadPoll == \E k \in 1..Len(w.polls) : w.polls[k] \in {"error", "malformed"}

\* C2: a wait() in which some poll returned an error mapping or a payload
\* whose status is present but no mapping raises nothing and returns the
\* Job handle.
C2_WaitToleratesBadStatus ==
    (pc = "done" /\ op = "wait" /\ SawBadPoll) => (raised = "none" /\ ret = RetSelf)

AllActive == \A k \in 1..Len(w.polls) : w.polls[k] = "active"

\* C3: a wait(interval, timeout) with interval > 0 dividing timeout whose
\* every poll reported the job active (and neither succeeded nor failed)
\* ends after exactly timeout/interval sleeps and as many readJobStatus
\* calls, with the timeout logged, nothing raised and the handle returned.
C3_AlwaysActiveWaitTimesOut ==
    (/\ pc = "done"
     /\ op = "wait"
     /\ w.interval > 0
     /\ w.timeout % w.interval = 0
     /\ raised = "none"
     /\ AllActive)
    => /\ w.sleeps = w.timeout \div w.interval
       /\ calls["readJobStatus"] = w.timeout \div w.interval
       /\ Len(w.polls) = w.timeout \div w.interval
       /\ w.timedout
       /\ ret = RetSelf

C3_Witness ==
    /\ pc = "done"
    /\ op = "wait"
    /\ w.interval = 1
    /\ w.timeout = 3
    /\ w.polls = <<"active", "active", "active">>
    /\ w.sleeps = 3
    /\ calls["readJobStatus"] = 3
    /\ w.timedout
    /\ ret = RetSelf

\* the k-th poll is the first that is not plain active, and it reports
\* succeeded, failed or not active
EndsAtPoll(k) ==
    /\ k = Len(w.polls)
    /\ k >= 1
    /\ \A j \in 1..(k - 1) : w.polls[j] = "active"
    /\ w.polls[k] \in {"succeeded", "failed", "inactive"}

\* C4: a wait() on a handle without a cached status, whose polls 1..k-1
\* reported the job active and whose k-th poll is the first to report
\* succeeded, failed or not active, returns the handle after exactly k sleeps
\* and k readJobStatus calls, by that poll and not by the timeout.
C4_WaitReturnsAtFirstTerminalPoll ==
    \A k \in 1..(MaxTimeout + 1) :
        (pc = "done" /\ op = "wait" /\ w.fresh /\ EndsAtPoll(k))
        => /\ w.sleeps = k
           /\ calls["readJobStatus"] = k
           /\ raised = "none"
           /\ ret = RetSelf
           /\ ~w.timedout

C4_Witness ==
    /\ pc = "done"
    /\ op = "wait"
    /\ w.fresh
    /\ w.polls = <<"active", "succeeded">>
    /\ w.sleeps = 2
    /\ calls["readJobStatus"] = 2
    /\ ret = RetSelf

LogsRan == pc = "done" /\ op \in {"logs", "logs_nocache"} /\ raised = "none" /\ lg.listed

C6_SettledLogsAreCached ==
    [][(pc = "idle" /\ settled /\ pc' # "idle" /\ op' = "logs")
        => /\ pc' = "done"
           /\ ret' = RetLog(logs_cache)
           /\ calls' = NoCalls]_vars

\* C7: create() on a handle without containers raises the validation error,
\* issues no createJob call and leaves creation_response and both caches as
\* they were.
C7_CreateWithoutContainersIsRejected ==
    [][(pc = "idle" /\ containers = 0 /\ pc' = "done" /\ op' = "create")
        => /\ raised' = "ValueError"
           /\ calls' = NoCalls
           /\ UNCHANGED <<creation_response, status_cache, logs_cache>>]_vars

C7_Witness ==
    /\ pc = "done"
    /\ op = "create"
    /\ containers = 0
    /\ raised = "ValueError"
    /\ calls["createJob"] = 0
    /\ creation_response # None
    /\ status_cache # None
    /\ logs_cache # None

\* C8: api_request returns every failure of the client as a mapping with an
\* `error` key and raises nothing, whatever the body of the failure is.
C8_FailuresAreReturnedAsMappings ==
    (pc = "done" /\ op = "api_request" /\ arg.outcome.t = "exc")
    => /\ raised = "none"
       /\ ret.t = "payload"
       /\ ret.v.error # "ABSENT"

HasJobLabel(it) == it.meta = "map" /\ it.labels = "map" /\ it.job = Text(job_name)
NameOrNA(x) == IF x \in {"ABSENT", "NULL"} THEN "N/A" ELSE x
\* the listed pods labelled job-name = JobName, in listing order
Labelled(items) ==
    LET keep == SelectSeq(items, HasJobLabel) IN
    [k \in 1..Len(keep) |-> Pod(NameOrNA(keep[k].name), NameOrNA(keep[k].namespace))]

\* C9: pods() never raises: it returns the listed pods whose label job-name
\* is the job's name, in listing order, with "N/A" for a missing or null name
\* or namespace, and the empty sequence when the listing failed.
C9_PodsNeverRaises ==
    (pc = "done" /\ op = "pods")
    => /\ raised = "none"
       /\ ret = RetPods(IF arg.outcome.t = "exc" THEN <<>>
                        ELSE Labelled(arg.outcome.v.items.v))

\* C10: Pod.info() on a failed readPod raises nothing and returns the error
\* mapping, with metadata.name and metadata.namespace those of the handle and
\* with a logs entry.
C10_PodInfoOnFailedRead ==
    (pc = "done" /\ op = "pod_info" /\ arg.outcome.t = "exc")
    => /\ raised = "none"
       /\ ret.t = "payload"
       /\ ret.v.error # "ABSENT"
       /\ ret.v.metadata = Meta("map", arg.pod.name, arg.pod.namespace)
       /\ ret.v.logs # [t |-> "absent"]

\* the fetch of a container's log came back from api_request: a str, or the
\* mapping of a failure whose body is a JSON mapping
FetchReturned(kind) == kind \in {"ok", "k8s", "json"}

\* what one container adds to the pod's log
Contribution(pod, container, kind) ==
    CASE kind = "ok" -> <<pod.name \o ":" \o container>>
      [] kind = "k8s" -> <<"message">>
      [] OTHER -> <<>>

RECURSIVE Contributions(_, _, _)
Contributions(pod, names, kinds) ==
    IF names = <<>> THEN <<>>
    ELSE Contribution(pod, Head(names), Head(kinds))
         \o Contributions(pod, Tail(names), Tail(kinds))

RECURSIVE Glued(_)
\* the parts with one separator line between neighbours
Glued(parts) ==
    IF Len(parts) = 0 THEN ""
    ELSE IF Len(parts) = 1 THEN parts[1]
    ELSE Glued(SubSeq(parts, 1, Len(parts) - 1)) \o Separator \o parts[Len(parts)]

PodInfoRead ==
    /\ pc = "done"
    /\ op = "pod_info"
    /\ arg.outcome.t = "ok"
    /\ \A k \in 1..Len(arg.kinds) : FetchReturned(arg.kinds[k])

NoBackoffOverride == arg.job_spec = None \/ arg.job_spec.v.backoff_limit = None

\* C12: every job body sent to createJob has restart policy "Never" and,
\* when the caller of create() gave no backoff limit, backoff limit 0.
C12_JobsAreNeverRetried ==
    (pc = "done" /\ sent.endpoint = "createJob")
    => /\ sent.body.restart_policy = "Never"
       /\ NoBackoffOverride => sent.body.backoff_limit = Some(0)

\* the trimmed prefix, each run of non-alphanumerics as one hyphen, in
\* lower case: position i of the trimmed prefix stays when it is
\* alphanumeric or starts a run
Normalized(prefix) ==
    LET first == CHOOSE i \in 1..(Len(prefix) + 1) :
                    /\ \A j \in 1..(i - 1) : prefix[j] = " "
                    /\ i <= Len(prefix) => prefix[i] # " "
        last == CHOOSE i \in 0..Len(prefix) :
                    /\ \A j \in (i + 1)..Len(prefix) : prefix[j] = " "
                    /\ i >= 1 => prefix[i] # " "
        t == SubSeq(prefix, first, last)
        Stays(i) == IsAlnum(t[i]) \/ i = 1 \/ IsAlnum(t[i - 1])
        kept == SelectSeq([i \in 1..Len(t) |-> i], Stays)
    IN [k \in 1..Len(kept) |->
           IF IsAlnum(t[kept[k]]) THEN LowerChar(t[kept[k]]) ELSE "-"]

\* C13: generate_job_name(prefix, n) returns lower-case alphanumerics and
\* hyphens only, with no hyphen first or last, of length
\* len(normalizedPrefix) + 1 + n for a non-empty prefix and n for an empty one.
C13_GeneratedNameIsAResourceName ==
    (pc = "done" /\ op = "generate_job_name")
    => LET name == ret.v IN
       /\ \A i \in 1..Len(name) :
              name[i] \in Range(LowerChars) \cup Range(Digits) \cup {"-"}
       /\ name # <<>> => (name[1] # "-" /\ name[Len(name)] # "-")
       /\ Len(name) = IF arg.prefix # <<>> THEN Len(Normalized(arg.prefix)) + 1 + arg.n
                      ELSE arg.n

\* C16: over every sequence of calls on the handle, the cached status
\* snapshot never has a status with active truthy; a cached snapshot is never
\* dropped; and while every status read so far reported the job active,
\* each status()/info() call issues exactly one readJobStatus call.
C16_StatusCacheInvariant ==
    [][/\ status_cache' # None =>
            ~(IsDict(status_cache'.v.status) /\ status_cache'.v.status.active = 1)
       /\ status_cache # None => status_cache' # None
       /\ (pc = "idle" /\ only_active /\ op' \in {"info", "info_nocache"})
            => calls'["readJobStatus"] = 1]_vars

C16_Witness ==
    /\ pc = "done"
    /\ op = "info"
    /\ only_active
    /\ created_as # None
    /\ calls["readJobStatus"] = 1
    /\ ret.t = "payload"
    /\ ret.v.status.active = 1

\* C17: when the log fetch of every container of the pod, one at least, came
\* back as an error mapping without a message, the pod's aggregated log is
\* None.
C17_LogsAreNoneWhenEveryFetchFails ==
    (/\ PodInfoRead
     /\ Len(arg.kinds) >= 1
     /\ \A k \in 1..Len(arg.kinds) : arg.kinds[k] = "json")
    => ret.v.logs = None

\* C18: once create() has sent a job body, every later status read, delete
\* and pod listing of the handle addresses the job (for the listing: filters
\* on label job-name) by the name that body carried.
C18_OneNameForTheJob ==
    (created_as # None /\ sent.endpoint \in {"readJobStatus", "deleteJob", "listPods"})
    => sent.name = created_as.v

\* C19: every readPod and readPodLog request of logs() addresses the pod
\* by the name and the namespace it was listed under.
C19_LogsReadThePodsListed ==
    (op \in {"logs", "logs_nocache"} /\ sent.endpoint \in {"readPod", "readPodLog"})
    => /\ lg.discovered # None
       /\ sent.name = lg.discovered.v.name
       /\ sent.namespace = lg.discovered.v.namespace

\* a logs() call stored its result in the log cache
LogsStored == pc = "done" /\ op \in {"logs", "logs_nocache"} /\ lg.stored

\* C20: logs() stores its result in the log cache only when its status read
\* gave a payload without error whose status mapping reports the job not
\* active.
C20_LogsCachedOnlyWhenTerminal ==
    LogsStored => lg.final \in {"succeeded", "failed", "inactive"}

\* C14: in a wait(interval, timeout) with interval > 0 and timeout >= 0 the
\* time slept so far, sleeps times interval, never exceeds timeout.
C14_SleepNeverExceedsTimeout ==
    (op = "wait" /\ w.interval > 0) => w.sleeps * w.interval <= w.timeout

\* C15: every wait() that has started ends, whatever interval and timeout
\* it was given and whatever the status reads answer.
C15_WaitTerminates == (pc = "wait") ~> (pc = "done")

====
